---- MODULE Spec2Model ----
(***************************************************************************)
(* Model of show_functional_structure.py: the path filter should_include,  *)
(* the tree printer show_clean_structure and the summary printer           *)
(* show_summary, run one after the other by the entry point.               *)
(*                                                                         *)
(* A file or directory name is a sequence of one-character strings, so     *)
(* that suffixes, "ends with" and the ordering of names are computed from  *)
(* the characters.  A path is a sequence of names (pathlib's parts).       *)
(***************************************************************************)
EXTENDS Integers, Sequences, FiniteSets, TLC

VARIABLES base, fs, pc, todo, shown_dirs, out, items, arg, result

vars == <<base, fs, pc, todo, shown_dirs, out, items, arg, result>>

(***************************************************************************)
(* Bounds of the model.                                                    *)
(***************************************************************************)
MaxDepth == 3
MaxEntries == 3
MaxParts == 2

(***************************************************************************)
(* Strings.                                                                *)
(***************************************************************************)
RECURSIVE Str(_)
Str(s) == IF s = <<>> THEN "" ELSE Head(s) \o Str(Tail(s))

\* Code points of the characters that occur in the names of the model.
Ord ==
  ("*" :> 42) @@ ("." :> 46) @@ ("/" :> 47) @@ ("2" :> 50) @@
  ("C" :> 67) @@ ("D" :> 68) @@ ("E" :> 69) @@ ("I" :> 73) @@
  ("L" :> 76) @@ ("M" :> 77) @@ ("N" :> 78) @@ ("R" :> 82) @@
  ("S" :> 83) @@ ("_" :> 95) @@
  ("a" :> 97) @@ ("b" :> 98) @@ ("c" :> 99) @@ ("d" :> 100) @@
  ("e" :> 101) @@ ("g" :> 103) @@ ("h" :> 104) @@ ("i" :> 105) @@
  ("j" :> 106) @@ ("l" :> 108) @@ ("m" :> 109) @@ ("n" :> 110) @@
  ("o" :> 111) @@ ("p" :> 112) @@ ("r" :> 114) @@ ("s" :> 115) @@
  ("t" :> 116) @@ ("u" :> 117) @@ ("v" :> 118) @@ ("x" :> 120) @@
  ("y" :> 121)

\* str.__lt__: lexicographic comparison by code point
RECURSIVE StrLess(_, _)
StrLess(a, b) ==
  IF b = <<>> THEN FALSE
  ELSE IF a = <<>> THEN TRUE
  ELSE IF Head(a) # Head(b) THEN Ord[Head(a)] < Ord[Head(b)]
  ELSE StrLess(Tail(a), Tail(b))

\* Path.__lt__: the parts are compared as lists of strings
RECURSIVE PathLess(_, _)
PathLess(p, q) ==
  IF q = <<>> THEN FALSE
  ELSE IF p = <<>> THEN TRUE
  ELSE IF Head(p) # Head(q) THEN StrLess(Head(p), Head(q))
  ELSE PathLess(Tail(p), Tail(q))

(***************************************************************************)
(* Names used by the model.                                                *)
(***************************************************************************)
n_src == <<"s", "r", "c">>
n_main_py == <<"m", "a", "i", "n", ".", "p", "y">>
n_env == <<".", "e", "n", "v">>
n_build == <<"b", "u", "i", "l", "d">>
n_static == <<"s", "t", "a", "t", "i", "c">>
n_license == <<"L", "I", "C", "E", "N", "S", "E", ".", "t", "x", "t">>
n_css_map == <<"a", "p", "p", ".", "c", "s", "s", ".", "m", "a", "p">>
n_png == <<"x", ".", "p", "n", "g">>
n_v2_png == <<"x", ".", "v", "2", ".", "p", "n", "g">>
n_database == <<"d", "a", "t", "a", "b", "a", "s", "e">>
n_readme == <<"R", "E", "A", "D", "M", "E", ".", "m", "d">>
n_dot_end == <<"a", ".">>
n_cache == <<".", "c", "a", "c", "h", "e">>
n_star_map == <<"*", ".", "j", "s", ".", "m", "a", "p">>
n_root == <<"/">>
n_proj == <<"p", "r", "o", "j">>

(***************************************************************************)
(* pathlib accessors.                                                      *)
(***************************************************************************)
\* PurePath.name: the last part
name(path) == IF path = <<>> THEN <<>> ELSE path[Len(path)]

\* str.rfind('.') as a 1-based index, 0 when there is no dot
rfind_dot(nm) ==
  IF \E i \in 1..Len(nm) : nm[i] = "."
  THEN CHOOSE i \in 1..Len(nm) :
         /\ nm[i] = "."
         /\ \A j \in (i + 1)..Len(nm) : nm[j] # "."
  ELSE 0

\* PurePath.suffix: from the last dot on, unless the dot is the first or the
\* last character of the name
suffix(nm) ==
  LET i == rfind_dot(nm)
  IN IF 1 < i /\ i < Len(nm) THEN SubSeq(nm, i, Len(nm)) ELSE <<>>

(***************************************************************************)
(* The filter.                                                             *)
(***************************************************************************)
exclude_dirs ==
  {"node_modules", ".next", ".git", ".firebase", ".vercel",
   ".github", "__pycache__", "dist", "build", ".cache",
   ".vscode", ".idea", ".DS_Store", "coverage", ".yarn", "dev-tools",
   "supabase", "database"}

exclude_files ==
  {".DS_Store", "Thumbs.db", ".gitignore", ".gitattributes",
   ".env", ".env.local", ".env.production", "package-lock.json",
   "yarn.lock", "pnpm-lock.yaml", "*.log", "*.tmp"}

exclude_extensions ==
  {".map", ".log", ".tmp", ".cache", ".ico", ".png", ".jpg", ".svg"}

auto_generated_files ==
  {"asset-manifest.json", "robots.txt", "manifest.json",
   "favicon.ico", "logo192.png", "logo512.png", "*.css.map",
   "*.js.map", "LICENSE.txt", "reportWebVitals.ts",
   "setupTests.ts", "App.test.tsx", "react-app-env.d.ts"}

\* One turn of the loop over auto_generated_files: a pattern that starts
\* with '*' matches when the name ends with the rest of the pattern, that is
\* when the pattern is '*' followed by a tail of the name; any other pattern
\* matches when it equals the name.  (A name equal to a '*' pattern also ends
\* with the rest of that pattern, so the elif adds nothing for '*' patterns.)
matches_pattern(pattern, nm) ==
  \/ \E k \in 1..(Len(nm) + 1) : pattern = "*" \o Str(SubSeq(nm, k, Len(nm)))
  \/ Str(nm) = pattern

should_include_no_patterns(path) ==
  IF \E i \in 1..Len(path) : Str(path[i]) \in exclude_dirs THEN FALSE
  ELSE IF Str(name(path)) \in exclude_files THEN FALSE
  ELSE IF Str(suffix(name(path))) \in exclude_extensions THEN FALSE
  ELSE IF \E i \in 1..Len(path) : Str(path[i]) \in {"build", "static"}
    THEN FALSE
  ELSE TRUE

should_include(path) ==
  IF \E i \in 1..Len(path) : Str(path[i]) \in exclude_dirs THEN FALSE
  ELSE IF Str(name(path)) \in exclude_files THEN FALSE
  ELSE IF Str(suffix(name(path))) \in exclude_extensions THEN FALSE
  ELSE IF \E pattern \in auto_generated_files :
            matches_pattern(pattern, name(path))
    THEN FALSE
  ELSE IF \E i \in 1..Len(path) : Str(path[i]) \in {"build", "static"}
    THEN FALSE
  ELSE TRUE

(***************************************************************************)
(* The file system under the base directory: a function from the paths     *)
(* relative to the base directory to the kind of the entry.  "other" is an *)
(* entry that is neither a directory nor a regular file (a dangling link,  *)
(* a socket).  Every proper prefix of an entry is a directory.             *)
(***************************************************************************)
Names == {n_src, n_main_py, n_env, n_build}

Kinds == {"dir", "file", "other"}

BasePaths == {<<n_root, n_proj>>, <<n_root, n_build, n_proj>>}

Extensions(t) ==
  {Append(p, nm) : p \in {q \in t \cup {<<>>} : Len(q) < MaxDepth},
                   nm \in Names} \ t

RECURSIVE TreesUpTo(_)
TreesUpTo(n) ==
  IF n = 0 THEN {{}}
  ELSE LET prev == TreesUpTo(n - 1)
       IN prev \cup UNION {{t \cup {p} : p \in Extensions(t)} : t \in prev}

HasChild(t, p) ==
  \E q \in t : Len(q) = Len(p) + 1 /\ SubSeq(q, 1, Len(p)) = p

FileSystems ==
  UNION {{f \in [t -> Kinds] : \A p \in t : HasChild(t, p) => f[p] = "dir"} :
         t \in TreesUpTo(MaxEntries)}

is_dir(p) == p \in DOMAIN fs /\ fs[p] = "dir"
is_file(p) == p \in DOMAIN fs /\ fs[p] = "file"

\* the children of the directory p, as iterdir() yields them
iterdir(p) ==
  {q \in DOMAIN fs : Len(q) = Len(p) + 1 /\ SubSeq(q, 1, Len(p)) = p}

\* base_path.rglob('*'): every entry below the base directory
rglob == DOMAIN fs

\* sorted(base_path.rglob('*')): the paths of S in ascending order.  The
\* paths of S are pairwise different, so the path at position i is the one
\* with i - 1 smaller paths.
sorted_paths(S) ==
  [i \in 1..Cardinality(S) |->
     CHOOSE x \in S : Cardinality({y \in S : PathLess(y, x)}) = i - 1]

reversed(s) == [i \in 1..Len(s) |-> s[Len(s) + 1 - i]]

(***************************************************************************)
(* Standard output: a sequence of lines.  A line records the marker, the   *)
(* indentation in spaces and the text that are printed, and, for the       *)
(* checking of properties only, the entry the line was printed for ("of")  *)
(* and the printer that printed it ("sec").                                *)
(***************************************************************************)
Line(sec, mark, indent, text, of) ==
  [sec |-> sec, mark |-> mark, indent |-> indent, text |-> text, of |-> of]

tree_title ==
  <<Line("tree", "title", 0,
         "PROJECT STRUCTURE (Source & Config Files Only):", <<>>),
    Line("tree", "rule", 0, "=", <<>>)>>

\* the walk from the path up to the base directory: the path, its parent, ...
walk_up(path) == [i \in 1..Len(path) |-> SubSeq(path, 1, Len(path) + 1 - i)]

dirs_to_show_any_kind(path, shown) ==
  SelectSeq(walk_up(path), LAMBDA d : d \notin shown)

dirs_to_show_no_check(path, shown) ==
  SelectSeq(walk_up(path), LAMBDA d : is_dir(d))

\* lines 71-77: the directories on the walk that are not yet shown
dirs_to_show(path, shown) ==
  SelectSeq(walk_up(path), LAMBDA d : is_dir(d) /\ d \notin shown)

header_line(d) ==
  Line("tree", "dir", 2 * (Len(d) - 1), Str(name(d)) \o "/", d)

print_dirs_deepest_first(dirs) ==
  [i \in 1..Len(dirs) |-> header_line(dirs[i])]

\* lines 80-83: the headers, printed in the reverse of the order of the walk
print_dirs(dirs) ==
  [i \in 1..Len(dirs) |-> header_line(reversed(dirs)[i])]

\* lines 86-89
print_file(path) ==
  IF is_file(path)
  THEN <<Line("tree", "file", 2 * (Len(path) - 1), Str(name(path)), path)>>
  ELSE <<>>

(***************************************************************************)
(* show_clean_structure                                                    *)
(***************************************************************************)
\* lines 55-66: the title, the empty set of shown directories, and the
\* sorted enumeration of the entries
TreeStart ==
  /\ pc = "start"
  /\ out' = out \o tree_title
  /\ shown_dirs' = {}
  /\ todo' = sorted_paths(rglob)
  /\ pc' = "tree"
  /\ UNCHANGED <<base, fs, items, arg, result>>

\* lines 67-68: an entry that the filter rejects
TreeSkip ==
  /\ pc = "tree"
  /\ todo # <<>>
  /\ ~should_include(base \o Head(todo))
  /\ todo' = Tail(todo)
  /\ UNCHANGED <<base, fs, pc, shown_dirs, out, items, arg, result>>

\* lines 70-89: an entry that the filter accepts
TreeShow ==
  /\ pc = "tree"
  /\ todo # <<>>
  /\ should_include(base \o Head(todo))
  /\ LET path == Head(todo)
         dirs == dirs_to_show(path, shown_dirs)
     IN /\ shown_dirs' = shown_dirs \cup {dirs[i] : i \in 1..Len(dirs)}
        /\ out' = out \o print_dirs(dirs) \o print_file(path)
  /\ todo' = Tail(todo)
  /\ UNCHANGED <<base, fs, pc, items, arg, result>>

\* line 66: enumerating the tree raises; nothing catches the exception
TreeEnumError ==
  /\ pc = "start"
  /\ out' = out \o tree_title
  /\ pc' = "crashed"
  /\ UNCHANGED <<base, fs, todo, shown_dirs, items, arg, result>>

\* lines 74, 86: is_dir() or is_file() raises on an accepted entry; nothing
\* catches the exception
TreeEntryError ==
  /\ pc = "tree"
  /\ todo # <<>>
  /\ should_include(base \o Head(todo))
  /\ pc' = "crashed"
  /\ UNCHANGED <<base, fs, todo, shown_dirs, out, items, arg, result>>

\* lines 66-89 as a function of the base path: the lines printed for the
\* entries of todo when the directories of shown have their header already
RECURSIVE tree_lines(_, _, _)
tree_lines(b, paths, shown) ==
  IF paths = <<>> THEN <<>>
  ELSE IF ~should_include(b \o Head(paths))
    THEN tree_lines(b, Tail(paths), shown)
  ELSE LET dirs == dirs_to_show(Head(paths), shown)
       IN print_dirs(dirs) \o print_file(Head(paths)) \o
          tree_lines(b, Tail(paths),
                     shown \cup {dirs[i] : i \in 1..Len(dirs)})

\* the loop is exhausted: show_clean_structure returns and the entry point
\* calls show_summary (lines 128-129)
TreeEnd ==
  /\ pc = "tree"
  /\ todo = <<>>
  /\ pc' = "summary"
  /\ UNCHANGED <<base, fs, todo, shown_dirs, out, items, arg, result>>

(***************************************************************************)
(* show_summary                                                            *)
(***************************************************************************)
summary_exclude_dirs ==
  {"node_modules", ".git", ".next", "dist", "build", ".cache", ".vscode",
   ".idea"}

summary_title ==
  <<Line("summary", "blank", 0, "", <<>>),
    Line("summary", "title", 0,
         "ACTUAL DIRECTORY CONTENTS (No filtering):", <<>>),
    Line("summary", "rule", 0, "=", <<>>)>>

\* line 104: the immediate subdirectories that are not excluded
summary_items ==
  {item \in iterdir(<<>>) :
     is_dir(item) /\ Str(name(item)) \notin summary_exclude_dirs}

\* key=lambda x: x.name
name_less(x, y) == StrLess(name(x), name(y))

dirs_first_less_name_only(x, y) == StrLess(name(x), name(y))

\* key=lambda x: (not x.is_dir(), x.name)
dirs_first_less(x, y) ==
  IF is_dir(x) # is_dir(y) THEN is_dir(x) ELSE StrLess(name(x), name(y))

\* sorted(items, key=lambda x: x.name); the names are pairwise different
sorted_by_name(S) ==
  [i \in 1..Cardinality(S) |->
     CHOOSE x \in S : Cardinality({y \in S : name_less(y, x)}) = i - 1]

\* sorted(sub_items, key=lambda x: (not x.is_dir(), x.name))
sorted_dirs_first(S) ==
  [i \in 1..Cardinality(S) |->
     CHOOSE x \in S : Cardinality({y \in S : dirs_first_less(y, x)}) = i - 1]

\* line 107
folder_header(item) ==
  <<Line("summary", "blank", 0, "", item),
    Line("summary", "folder", 0, Str(name(item)) \o "/", item)>>

\* lines 111-114
child_line(sub_item) ==
  IF is_dir(sub_item)
  THEN Line("summary", "dir", 2, Str(name(sub_item)) \o "/", sub_item)
  ELSE Line("summary", "file", 2, Str(name(sub_item)), sub_item)

\* lines 109-114: the children of the item, directories first
child_lines(item) ==
  LET sub_items == sorted_dirs_first(iterdir(item))
  IN [i \in 1..Len(sub_items) |-> child_line(sub_items[i])]

denied_line(item) == Line("summary", "denied", 2, "(Permission denied)", item)

error_line(item) == Line("summary", "error", 0, "Error reading directory: ", item)

none_found ==
  <<Line("summary", "blank", 0, "", <<>>),
    Line("summary", "none", 0, "No subdirectories found.", <<>>)>>

\* lines 98-106: the title, then the base directory is enumerated and it has
\* subdirectories to list
SummaryEnumerate ==
  /\ pc = "summary"
  /\ summary_items # {}
  /\ out' = out \o summary_title
  /\ items' = sorted_by_name(summary_items)
  /\ pc' = "listing"
  /\ UNCHANGED <<base, fs, todo, shown_dirs, arg, result>>

SummaryNone_silent ==
  /\ pc = "summary"
  /\ summary_items = {}
  /\ out' = out \o summary_title
  /\ pc' = "done"
  /\ UNCHANGED <<base, fs, todo, shown_dirs, items, arg, result>>

\* lines 98-105, 117-118: the base directory has no subdirectory to list
SummaryNone ==
  /\ pc = "summary"
  /\ summary_items = {}
  /\ out' = out \o summary_title \o none_found
  /\ pc' = "done"
  /\ UNCHANGED <<base, fs, todo, shown_dirs, items, arg, result>>

SummaryError_propagates ==
  /\ pc = "summary"
  /\ out' = out \o summary_title
  /\ pc' = "crashed"
  /\ UNCHANGED <<base, fs, todo, shown_dirs, items, arg, result>>

\* lines 98-104, 119-120: enumerating the base directory raises
SummaryError ==
  /\ pc = "summary"
  /\ out' = out \o summary_title \o <<error_line(<<>>)>>
  /\ pc' = "done"
  /\ UNCHANGED <<base, fs, todo, shown_dirs, items, arg, result>>

\* lines 106-114: one subdirectory whose children can be read
SummaryItem ==
  /\ pc = "listing"
  /\ items # <<>>
  /\ out' = out \o folder_header(Head(items)) \o child_lines(Head(items))
  /\ items' = Tail(items)
  /\ UNCHANGED <<base, fs, pc, todo, shown_dirs, arg, result>>

SummaryDenied_aborts ==
  /\ pc = "listing"
  /\ items # <<>>
  /\ out' = out \o folder_header(Head(items)) \o <<denied_line(Head(items))>>
  /\ items' = Tail(items)
  /\ pc' = "done"
  /\ UNCHANGED <<base, fs, todo, shown_dirs, arg, result>>

\* lines 106-109, 115-116: reading the children raises PermissionError
SummaryDenied ==
  /\ pc = "listing"
  /\ items # <<>>
  /\ out' = out \o folder_header(Head(items)) \o <<denied_line(Head(items))>>
  /\ items' = Tail(items)
  /\ UNCHANGED <<base, fs, pc, todo, shown_dirs, arg, result>>

\* lines 106-109, 119-120: reading the children raises another exception,
\* which the outer handler catches
SummaryItemError ==
  /\ pc = "listing"
  /\ items # <<>>
  /\ out' = out \o folder_header(Head(items)) \o <<error_line(Head(items))>>
  /\ items' = Tail(items)
  /\ pc' = "done"
  /\ UNCHANGED <<base, fs, todo, shown_dirs, arg, result>>

\* the loop over the subdirectories is exhausted: show_summary returns
SummaryEnd ==
  /\ pc = "listing"
  /\ items = <<>>
  /\ pc' = "done"
  /\ UNCHANGED <<base, fs, todo, shown_dirs, out, items, arg, result>>

(***************************************************************************)
(* The program: show_clean_structure, then show_summary.                   *)
(***************************************************************************)
Init ==
  /\ base \in BasePaths
  /\ fs \in FileSystems
  /\ pc = "start"
  /\ todo = <<>>
  /\ shown_dirs = {}
  /\ out = <<>>
  /\ items = <<>>
  /\ arg = <<>>
  /\ result = "unset"

Next ==
  \/ TreeStart
  \/ TreeSkip
  \/ TreeShow
  \/ TreeEnd
  \/ TreeEnumError
  \/ TreeEntryError
  \/ SummaryEnumerate
  \/ SummaryNone
  \/ SummaryError
  \/ SummaryItem
  \/ SummaryDenied
  \/ SummaryItemError
  \/ SummaryEnd

Spec == Init /\ [][Next]_vars

(***************************************************************************)
(* should_include as a function of its argument alone.                     *)
(***************************************************************************)
FilterNames ==
  {n_src, n_main_py, n_env, n_build, n_static, n_license, n_css_map, n_png,
   n_v2_png, n_database, n_readme, n_dot_end, n_cache, n_star_map, n_proj}

FilterInputs ==
  UNION {[1..n -> FilterNames] : n \in 1..MaxParts}

InitFilter ==
  /\ arg \in FilterInputs
  /\ result = "unset"
  /\ pc = "filter"
  /\ base = <<>>
  /\ fs = <<>>
  /\ todo = <<>>
  /\ shown_dirs = {}
  /\ out = <<>>
  /\ items = <<>>

FilterCall ==
  /\ pc = "filter"
  /\ result' = IF should_include(arg) THEN "included" ELSE "excluded"
  /\ pc' = "filtered"
  /\ UNCHANGED <<base, fs, todo, shown_dirs, out, items, arg>>

NextFilter == FilterCall

SpecFilter == InitFilter /\ [][NextFilter]_vars

(***************************************************************************)
(* Properties.                                                             *)
(***************************************************************************)
Prefix(p, k) == SubSeq(p, 1, k)

IsAncestor(d, p) == Len(d) < Len(p) /\ Prefix(p, Len(d)) = d

TreeDone == pc \in {"summary", "listing", "done"}

\* the positions of out that hold a line of the tree for an entry
TreeIdx == {i \in 1..Len(out) : out[i].sec = "tree" /\ out[i].mark \in {"dir", "file"}}

HeaderIdx(d) == {i \in TreeIdx : out[i].mark = "dir" /\ out[i].of = d}

EntryIdx(p) == {i \in TreeIdx : out[i].of = p}

Accepted(p) == should_include(base \o p)

\* C1: during one run of the tree printer no directory has its header
\* printed more than once, however many accepted entries lie below it.
C1_HeaderAtMostOnce ==
  \A d \in DOMAIN fs : Cardinality(HeaderIdx(d)) <= 1

\* a directory whose header is printed and below which two accepted entries
\* have been printed
C1_Witness ==
  \E d \in DOMAIN fs :
    /\ HeaderIdx(d) # {}
    /\ Cardinality({p \in DOMAIN fs : /\ IsAncestor(d, p)
                                      /\ Accepted(p)
                                      /\ EntryIdx(p) # {}}) >= 2

C7_OneLineEachInOrder ==
  TreeDone =>
    /\ \A p \in DOMAIN fs :
         (fs[p] \in {"dir", "file"} /\ Accepted(p)) =>
           /\ Cardinality(EntryIdx(p)) = 1
           /\ \A i \in EntryIdx(p) : out[i].mark = fs[p]
    /\ LET acc == {i \in TreeIdx : Accepted(out[i].of)}
       IN \A i, j \in acc : PathLess(out[i].of, out[j].of) => i < j

\* an accepted directory without accepted contents and an accepted file are
\* both printed
C7_Witness ==
  /\ TreeDone
  /\ \E d, f \in DOMAIN fs :
       /\ fs[d] = "dir" /\ Accepted(d) /\ iterdir(d) = {}
       /\ fs[f] = "file" /\ Accepted(f)
       /\ EntryIdx(d) # {} /\ EntryIdx(f) # {}

\* C9 (as claimed): the lines of the tree do not depend on the segments of
\* the base path: they are the lines printed for the same contents under any
\* other base path.
C9_BaseIndependent ==
  TreeDone =>
    \A b \in BasePaths :
      [i \in 1..Cardinality(TreeIdx) |-> out[i + Len(tree_title)]]
        = tree_lines(b, sorted_paths(rglob), {})

\* C10 (as claimed): every line of the tree, headers included, is for an
\* entry that the filter accepts.
C10_OnlyAcceptedPrinted ==
  \A i \in TreeIdx : Accepted(out[i].of)

SummaryIdx == {i \in 1..Len(out) : out[i].sec = "summary"}

FolderIdx == {i \in SummaryIdx : out[i].mark = "folder"}

ChildIdx == {i \in SummaryIdx : out[i].mark \in {"dir", "file"}}

DeniedIdx == {i \in SummaryIdx : out[i].mark = "denied"}

ErrorIdx == {i \in SummaryIdx : out[i].mark = "error"}

\* the subdirectories that the summary has to list
Listable ==
  {d \in DOMAIN fs :
     Len(d) = 1 /\ fs[d] = "dir" /\ Str(name(d)) \notin summary_exclude_dirs}

\* the positions of the lines printed under the header at position i
SectionOf(i) ==
  {j \in SummaryIdx :
     /\ j > i
     /\ out[j].mark \in {"dir", "file", "denied"}
     /\ \A k \in FolderIdx : ~(i < k /\ k < j)}

\* the subdirectory d has its header and, under it, all its children or the
\* report that it cannot be read
Listed(d) ==
  \E i \in FolderIdx :
    /\ out[i].of = d
    /\ \/ {out[j].of : j \in SectionOf(i)} = iterdir(d)
       \/ \E j \in SectionOf(i) : out[j].mark = "denied"

\* C4: when reading the children of a listed subdirectory raises a
\* permission error, its header is followed by exactly one "(Permission
\* denied)" line and by none of its children, and the listing goes on: every
\* subdirectory that sorts after it is listed as well, or is still to come,
\* unless a failure of another kind ended the listing in between.
C4_DeniedDoesNotAbort ==
  \A i \in DeniedIdx :
    LET d == out[i].of
    IN /\ i - 1 \in FolderIdx
       /\ out[i - 1].of = d
       /\ \A j \in DeniedIdx : out[j].of = d => j = i
       /\ \A j \in ChildIdx : ~IsAncestor(d, out[j].of)
       /\ SectionOf(i - 1) = {i}
       /\ \A e \in Listable :
            StrLess(name(d), name(e)) =>
              \/ Listed(e)
              \/ pc = "listing" /\ \E k \in 1..Len(items) : items[k] = e
              \/ \E k \in ErrorIdx :
                   /\ k > i
                   /\ StrLess(name(d), name(out[k].of))
                   /\ ~StrLess(name(e), name(out[k].of))

\* the summary has returned after a subdirectory could not be read and a
\* later subdirectory was listed with its children
C4_Witness ==
  /\ pc = "done"
  /\ \E i \in DeniedIdx :
       \E k \in FolderIdx :
         /\ k > i
         /\ iterdir(out[k].of) # {}
         /\ {out[j].of : j \in SectionOf(k)} = iterdir(out[k].of)

\* C5: the summary lists the subdirectories of the base directory that are
\* not excluded in ascending order of name, all of them when nothing fails,
\* and under each one its children, all of them when they can be read,
\* directories before files and in ascending order of name within each
\* kind; a file of the base directory and an entry deeper than two levels is
\* never listed.
C5_SummaryOrder ==
  /\ \A i \in FolderIdx : out[i].of \in Listable
  /\ \A i, j \in FolderIdx :
       i < j => StrLess(name(out[i].of), name(out[j].of))
  /\ (pc = "done" /\ ErrorIdx = {}) =>
       \A d \in Listable : \E i \in FolderIdx : out[i].of = d
  /\ \A i \in FolderIdx :
       /\ \A j \in SectionOf(i) :
            out[j].mark # "denied" =>
              /\ out[j].of \in iterdir(out[i].of)
              /\ out[j].mark = (IF fs[out[j].of] = "dir" THEN "dir" ELSE "file")
       /\ \A j, k \in SectionOf(i) :
            j < k =>
              /\ ~(out[j].mark = "file" /\ out[k].mark = "dir")
              /\ out[j].mark = out[k].mark =>
                   StrLess(name(out[j].of), name(out[k].of))
       /\ (i + 1 \notin DeniedIdx \cup ErrorIdx) =>
            {out[j].of : j \in SectionOf(i)} = iterdir(out[i].of)
  /\ \A j \in ChildIdx :
       /\ Len(out[j].of) = 2
       /\ \E i \in FolderIdx : j \in SectionOf(i)

\* a subdirectory is listed and under it a directory comes before a file
\* whose name sorts first
C5_Witness ==
  /\ pc = "done"
  /\ \E j \in ChildIdx :
       /\ j + 1 \in ChildIdx
       /\ out[j].mark = "dir"
       /\ out[j + 1].mark = "file"
       /\ StrLess(name(out[j + 1].of), name(out[j].of))

\* C6: a failure raised while show_summary enumerates the base directory is
\* caught there: the error line is printed after the title of the summary,
\* nothing is printed after it, and show_summary returns; no exception
\* leaves the summary printer, so the program only ever stops abnormally
\* before the summary has printed anything.
C6_EnumerationFailureCaught ==
  /\ \A i \in ErrorIdx :
       out[i].of = <<>> =>
         /\ i = Len(out)
         /\ pc = "done"
         /\ [k \in 1..Cardinality(SummaryIdx) |-> out[Len(out) - Cardinality(SummaryIdx) + k]]
              = summary_title \o <<error_line(<<>>)>>
  /\ pc = "crashed" => SummaryIdx = {}
  /\ (pc = "done" /\ FolderIdx = {}) =>
       \E i \in SummaryIdx : out[i].mark \in {"error", "none"}

\* enumerating a base directory that has entries failed
C6_Witness ==
  /\ pc = "done"
  /\ DOMAIN fs # {}
  /\ \E i \in ErrorIdx : out[i].of = <<>>

\* C8: for a base directory without entries the tree printer prints its two
\* title lines and nothing else, and the summary printer, when it can read
\* the directory, its title lines and then "No subdirectories found."
C8_EmptyBase ==
  DOMAIN fs = {} =>
    /\ TreeIdx = {}
    /\ pc \notin {"start"} =>
         [k \in 1..Len(tree_title) |-> out[k]] = tree_title
    /\ TreeDone => \A k \in 1..Len(out) : out[k].sec = "tree" => k <= Len(tree_title)
    /\ (pc = "done" /\ ErrorIdx = {}) =>
         out = tree_title \o summary_title \o none_found

\* both printers have run on a base directory without entries
C8_Witness ==
  /\ DOMAIN fs = {}
  /\ pc = "done"
  /\ ErrorIdx = {}
  /\ \E i \in SummaryIdx : out[i].mark = "none"

\* the name nm ends with the characters of the string t
EndsWith(nm, t) ==
  /\ Len(t) <= Len(nm)
  /\ Str(SubSeq(nm, Len(nm) - Len(t) + 1, Len(nm))) = t

\* the five exclusion rules, stated on the characters of the path
Rule1(path) == \E i \in 1..Len(path) : Str(path[i]) \in exclude_dirs

Rule2(path) == Str(name(path)) \in exclude_files

Rule3(path) ==
  \E e \in exclude_extensions :
    EndsWith(name(path), e) /\ Len(name(path)) > Len(e)

Rule4(path) ==
  \/ Str(name(path)) \in
       {"asset-manifest.json", "robots.txt", "manifest.json", "favicon.ico",
        "logo192.png", "logo512.png", "LICENSE.txt", "reportWebVitals.ts",
        "setupTests.ts", "App.test.tsx", "react-app-env.d.ts"}
  \/ EndsWith(name(path), ".css.map")
  \/ EndsWith(name(path), ".js.map")

Rule5(path) ==
  \E i \in 1..Len(path) : path[i] = n_build \/ path[i] = n_static

\* C3: should_include returns true exactly when none of the five exclusion
\* rules matches the path; so a path with a segment among the excluded
\* directories or with an excluded extension is excluded whatever else it
\* has, LICENSE.txt and app.css.map are excluded and main.py is included.
C3_FilterRules ==
  result # "unset" =>
    /\ result = "included" <=>
         ~(Rule1(arg) \/ Rule2(arg) \/ Rule3(arg) \/ Rule4(arg) \/ Rule5(arg))
    /\ (\E i \in 1..Len(arg) : arg[i] \in {n_build, n_database, n_cache}) =>
         result = "excluded"
    /\ name(arg) \in {n_png, n_v2_png, n_css_map} => result = "excluded"
    /\ name(arg) \in {n_license, n_css_map, n_star_map} => result = "excluded"
    /\ arg = <<n_main_py>> => result = "included"
    /\ arg \in {<<n_src, n_main_py>>, <<n_readme>>, <<n_src, n_dot_end>>} =>
         result = "included"

\* the filter has excluded a path that only the auto-generated names exclude
C3_Witness ==
  /\ result = "excluded"
  /\ arg = <<n_src, n_license>>
  /\ ~(Rule1(arg) \/ Rule2(arg) \/ Rule3(arg) \/ Rule5(arg))

====
